---- MODULE Spec2Model ----
(***************************************************************************)
(* Model of trotline (src/main.rs): main, search_directory, search_file.   *)
(*                                                                         *)
(* The main thread runs main and every search_directory invocation (the    *)
(* recursion is an ordinary call, so the invocations form a call stack).   *)
(* Every non-directory entry gets its own thread running search_file.      *)
(* The standard output is a sequence of records, appended to atomically    *)
(* (println! holds the stdout lock for the whole line).                    *)
(*                                                                         *)
(* Environment: the file system does not change during the run, path names *)
(* are valid Unicode (to_str() at lines 51 and 62 yields Some), the        *)
(* operating system grants every thread and the standard output accepts    *)
(* every write.  Patterns are literal texts, or a text with an unclosed    *)
(* group, which the regex crate refuses to compile.                        *)
(***************************************************************************)
EXTENDS Integers, Sequences, FiniteSets, TLC

VARIABLES
    entries,     \* the nodes of the directory tree below the root
    unlistable,  \* the directories read_dir fails on
    pattern,     \* main: pattern
    nocase,      \* main: nocase
    mainpc,      \* position of the main thread
    stack,       \* the search_directory invocations in progress, innermost last
    outcome,     \* main: outcome, what the root search_directory call returned
    unit,        \* the search_file threads, by the node of their file
    sink,        \* the records written to the standard output, in order
    classified,  \* history: how many times each entry was taken from a listing
    joins,       \* history: what the join of each thread added to (successes, failures)
    returned     \* history: the count each finished invocation returned, by directory

vars == <<entries, unlistable, pattern, nocase, mainpc, stack, outcome, unit,
          sink, classified, joins, returned>>

----------------------------------------------------------------------------
(* Bounds *)

\* The largest number of entries (files and directories) below the root.
MaxEntries == 5

----------------------------------------------------------------------------
(* The file systems the runs are drawn from: every tree is a part of this  *)
(* one, closed under parent and of at most MaxEntries entries.             *)

Root == 0

NoBytes == <<>>

Invalid == "0xFF"   \* a byte that is not part of any UTF-8 text

World ==
    [name      |-> <<"a.txt", "b.txt", "sub", "c.txt", "d.bin", "deep", "e.txt", "alt", "gone">>,
     parent    |-> <<0, 0, 0, 3, 3, 3, 6, 0, 8>>,
     is_dir    |-> <<FALSE, FALSE, TRUE, FALSE, FALSE, TRUE, FALSE, TRUE, FALSE>>,
     openable  |-> <<TRUE, TRUE, TRUE, TRUE, TRUE, TRUE, TRUE, TRUE, FALSE>>,
     bytes     |-> << <<"h","e","l","l","o","\n","w","o","r","l","d","\n">>,
                      <<"H","E","L","L","O","\n">>,
                      NoBytes,
                      <<"n","o"," ","m","a","t","c","h"," ","h","e","r","e","\n">>,
                      <<"h","e","l","l","o","\n",Invalid,"\n","h","e","l","l","o","\n">>,
                      NoBytes,
                      <<"a","b","c"," ","h","e","l","l","o","\r","\n","x","A","B","C","\n",
                        "h","e","l","l","o">>,
                      NoBytes,
                      NoBytes >>]

Nodes == DOMAIN World.name

Name(n) == World.name[n]
Parent(n) == World.parent[n]
IsDir(n) == n = Root \/ World.is_dir[n]
Openable(n) == World.openable[n]
Bytes(n) == World.bytes[n]

Files(S) == {n \in S : ~IsDir(n)}
Dirs(S) == {n \in S \cup {Root} : IsDir(n)}

Closed(S) == \A n \in S : Parent(n) = Root \/ Parent(n) \in S

Trees == {S \in SUBSET Nodes : Closed(S) /\ Cardinality(S) <= MaxEntries}

\* The patterns of the runs: two literals and an unclosed group.
Patterns == { <<"h","e","l","l","o">>, <<"A","B","C">>, <<"(">> }

----------------------------------------------------------------------------
(* Paths *)

\* Listing, the subdirectories left out
Listing_files(d) == {n \in entries : Parent(n) = d /\ ~IsDir(n)}

\* read_dir(path): the entries of a directory, each with path = path.join(name)
Listing(d) == {n \in entries : Parent(n) = d}

entry_path(path, n) == Append(path, Name(n))

RootPath == <<"root">>

----------------------------------------------------------------------------
(* search_file: the pure parts *)

Range(s) == {s[i] : i \in 1..Len(s)}

\* String::strip of one trailing "\r", as BufRead::lines does after the "\n"
StripCR(l) == IF l # <<>> /\ l[Len(l)] = "\r" THEN SubSeq(l, 1, Len(l) - 1) ELSE l

\* BufReader::lines(): the bytes up to each "\n", the "\n" (and a "\r" before
\* it) removed; bytes after the last "\n" are a last line.
RECURSIVE SplitLines(_, _)
SplitLines(bytes, cur) ==
    IF bytes = <<>> THEN (IF cur = <<>> THEN <<>> ELSE <<cur>>)
    ELSE IF Head(bytes) = "\n" THEN <<StripCR(cur)>> \o SplitLines(Tail(bytes), <<>>)
    ELSE SplitLines(Tail(bytes), Append(cur, Head(bytes)))

\* the lines of every file of the world, split once
AllLines == [n \in Nodes |-> SplitLines(Bytes(n), <<>>)]

lines(n) == AllLines[n]

\* A line is Ok(x) when its bytes are UTF-8, Err(_) otherwise
Decodes(l) == Invalid \notin Range(l)

\* Regex::new(pattern): Err for an unclosed group
Compiles(p) == "(" \notin Range(p)

\* simple case folding of the letters that occur
Fold(c) ==
    CASE c = "A" -> "a" [] c = "B" -> "b" [] c = "C" -> "c" [] c = "E" -> "e"
      [] c = "H" -> "h" [] c = "L" -> "l" [] c = "O" -> "o" [] OTHER -> c

FoldAll(s) == [i \in 1..Len(s) |-> Fold(s[i])]

Contains(hay, needle) ==
    \E i \in 0..(Len(hay) - Len(needle)) : SubSeq(hay, i + 1, i + Len(needle)) = needle

\* is_match, the case_insensitive flag ignored
is_match_exact(p, ci, l) == Contains(l, p)

\* is_match, the case_insensitive flag taken as set
is_match_fold(p, ci, l) == Contains(FoldAll(l), FoldAll(p))

\* test.is_match(&line_str), test compiled from p with case_insensitive(ci)
is_match(p, ci, l) ==
    IF ci THEN Contains(FoldAll(l), FoldAll(p)) ELSE Contains(l, p)

\* println!("{}:\t{}", path.display(), line_str)
MatchRecord(path, l) ==
    [kind |-> "match", path |-> path, line |-> l, successes |-> 0, failures |-> 0]

\* println!("\nSuccesses:\t{}\nFailures:\t{}", outcome.0, outcome.1)
SummaryRecord(o) ==
    [kind |-> "summary", path |-> <<>>, line |-> <<>>, successes |-> o[1], failures |-> o[2]]

----------------------------------------------------------------------------
(* State *)

NoUnit == [st |-> "none", path |-> <<>>, line |-> 0, opened |-> FALSE, result |-> "none"]

Frame(d, path) ==
    [dir |-> d, path |-> path, todo |-> Listing(d), jobs |-> <<>>,
     successes |-> 0, failures |-> 0]

\* combine, the pair of the recursive call ignored
combine_none(f, x, y) == f

\* combine, the failures of the recursive call dropped
combine_drop(f, x, y) == [f EXCEPT !.successes = @ + x]

\* lines 68-69: successes += x; failures += y
combine(f, x, y) == [f EXCEPT !.successes = @ + x, !.failures = @ + y]

\* record, a typed error of search_file counted as a failure
record_typed(f, r) ==
    IF r.result = "Processed" THEN [f EXCEPT !.successes = @ + 1]
                              ELSE [f EXCEPT !.failures = @ + 1]

\* record, every join counted as a success
record_always(f, r) == [f EXCEPT !.successes = @ + 1]

\* lines 76-79: match i.join() { Ok(_) => successes += 1, Err(_) => failures += 1 }
\* r is the thread joined: join() is Ok(_) whatever search_file returned,
\* Err(_) when the thread panicked
record(f, r) ==
    IF r.st = "returned" THEN [f EXCEPT !.successes = @ + 1]
                       ELSE [f EXCEPT !.failures = @ + 1]

Top == stack[Len(stack)]

SetTop(f) == [stack EXCEPT ![Len(stack)] = f]

\* Terminated, a thread that panicked never seen as ended
Terminated_ok(u) == unit[u].st = "returned"

Terminated(u) == unit[u].st \in {"returned", "panicked"}

Init ==
    /\ entries \in Trees
    /\ unlistable \in {{}} \cup {{d} : d \in Dirs(entries)}
    /\ pattern \in Patterns
    /\ nocase \in BOOLEAN
    /\ mainpc = "start"
    /\ stack = <<>>
    /\ outcome = <<0, 0>>
    /\ unit = [n \in Files(entries) |-> NoUnit]
    /\ sink = <<>>
    /\ classified = [n \in entries |-> 0]
    /\ joins = [n \in Files(entries) |-> <<>>]
    /\ returned = [d \in Dirs(entries) |-> <<>>]

----------------------------------------------------------------------------
(* main and search_directory, on the main thread *)

\* main, line 162: the call of search_directory on the root; read_dir(path).unwrap()
main_call ==
    /\ mainpc = "start"
    /\ IF Root \in unlistable
         THEN mainpc' = "panicked" /\ stack' = stack
         ELSE mainpc' = "walking" /\ stack' = <<Frame(Root, RootPath)>>
    /\ UNCHANGED <<entries, unlistable, pattern, nocase, outcome, unit, sink,
                   classified, joins, returned>>

\* spawn, waiting while another search_file thread is running
spawn_capped ==
    /\ mainpc = "walking"
    /\ \A v \in Files(entries) : unit[v].st \in {"none", "returned", "panicked"}
    /\ \E n \in Top.todo :
         /\ ~IsDir(n)
         /\ stack' = SetTop([Top EXCEPT !.todo = @ \ {n}, !.jobs = Append(@, n)])
         /\ unit' = [unit EXCEPT ![n] = [NoUnit EXCEPT !.st = "spawned",
                                                       !.path = entry_path(Top.path, n)]]
         /\ classified' = [classified EXCEPT ![n] = @ + 1]
    /\ UNCHANGED <<entries, unlistable, pattern, nocase, mainpc, outcome, sink,
                   joins, returned>>

\* lines 46-55: the next entry is not a directory; spawn search_file on it
spawn ==
    /\ mainpc = "walking"
    /\ \E n \in Top.todo :
         /\ ~IsDir(n)
         /\ stack' = SetTop([Top EXCEPT !.todo = @ \ {n}, !.jobs = Append(@, n)])
         /\ unit' = [unit EXCEPT ![n] = [NoUnit EXCEPT !.st = "spawned",
                                                       !.path = entry_path(Top.path, n)]]
         /\ classified' = [classified EXCEPT ![n] = @ + 1]
    /\ UNCHANGED <<entries, unlistable, pattern, nocase, mainpc, outcome, sink,
                   joins, returned>>

\* recurse, a directory that cannot be listed passed over
recurse_skip ==
    /\ mainpc = "walking"
    /\ \E n \in Top.todo :
         /\ IsDir(n)
         /\ classified' = [classified EXCEPT ![n] = @ + 1]
         /\ IF n \in unlistable
              THEN /\ mainpc' = mainpc
                   /\ stack' = SetTop([Top EXCEPT !.todo = @ \ {n}])
              ELSE /\ mainpc' = mainpc
                   /\ stack' = Append(SetTop([Top EXCEPT !.todo = @ \ {n}]),
                                      Frame(n, entry_path(Top.path, n)))
    /\ UNCHANGED <<entries, unlistable, pattern, nocase, outcome, unit, sink,
                   joins, returned>>

\* lines 56-64 and 40: the next entry is a directory; call search_directory on it
recurse ==
    /\ mainpc = "walking"
    /\ \E n \in Top.todo :
         /\ IsDir(n)
         /\ classified' = [classified EXCEPT ![n] = @ + 1]
         /\ IF n \in unlistable
              THEN /\ mainpc' = "panicked"
                   /\ stack' = SetTop([Top EXCEPT !.todo = @ \ {n}])
              ELSE /\ mainpc' = mainpc
                   /\ stack' = Append(SetTop([Top EXCEPT !.todo = @ \ {n}]),
                                      Frame(n, entry_path(Top.path, n)))
    /\ UNCHANGED <<entries, unlistable, pattern, nocase, outcome, unit, sink,
                   joins, returned>>

\* join, the handle polled instead of waited for
join_poll ==
    /\ mainpc = "walking"
    /\ Top.todo = {}
    /\ Top.jobs # <<>>
    /\ LET u == Head(Top.jobs) IN
         /\ stack' = SetTop(record([Top EXCEPT !.jobs = Tail(@)], unit[u]))
         /\ joins' = [joins EXCEPT ![u] = Append(@, <<stack'[Len(stack)].successes - Top.successes,
                                                       stack'[Len(stack)].failures - Top.failures>>)]
    /\ UNCHANGED <<entries, unlistable, pattern, nocase, mainpc, outcome, unit, sink,
                   classified, returned>>

\* join, begun before the listing is exhausted
join_eager ==
    /\ mainpc = "walking"
    /\ Top.jobs # <<>>
    /\ LET u == Head(Top.jobs) IN
         /\ Terminated(u)
         /\ stack' = SetTop(record([Top EXCEPT !.jobs = Tail(@)], unit[u]))
         /\ joins' = [joins EXCEPT ![u] = Append(@, <<stack'[Len(stack)].successes - Top.successes,
                                                       stack'[Len(stack)].failures - Top.failures>>)]
    /\ UNCHANGED <<entries, unlistable, pattern, nocase, mainpc, outcome, unit, sink,
                   classified, returned>>

\* lines 73-80: join the next handle of jobs; blocks until its thread has ended
join ==
    /\ mainpc = "walking"
    /\ Top.todo = {}
    /\ Top.jobs # <<>>
    /\ LET u == Head(Top.jobs) IN
         /\ Terminated(u)
         /\ stack' = SetTop(record([Top EXCEPT !.jobs = Tail(@)], unit[u]))
         /\ joins' = [joins EXCEPT ![u] = Append(@, <<stack'[Len(stack)].successes - Top.successes,
                                                       stack'[Len(stack)].failures - Top.failures>>)]
    /\ UNCHANGED <<entries, unlistable, pattern, nocase, mainpc, outcome, unit, sink,
                   classified, returned>>

\* return, the handles left in jobs not joined
return_early ==
    /\ mainpc = "walking"
    /\ Top.todo = {}
    /\ LET x == Top.successes
           y == Top.failures
           rest == SubSeq(stack, 1, Len(stack) - 1)
       IN /\ returned' = [returned EXCEPT ![Top.dir] = Append(@, <<x, y>>)]
          /\ IF rest = <<>>
               THEN /\ stack' = rest
                    /\ outcome' = <<x, y>>
                    /\ mainpc' = "returned"
               ELSE /\ stack' = [rest EXCEPT ![Len(rest)] = combine(@, x, y)]
                    /\ outcome' = outcome
                    /\ mainpc' = mainpc
    /\ UNCHANGED <<entries, unlistable, pattern, nocase, unit, sink, classified, joins>>

\* return, every invocation writing its own pair as a summary
return_print ==
    /\ mainpc = "walking"
    /\ Top.todo = {}
    /\ Top.jobs = <<>>
    /\ LET x == Top.successes
           y == Top.failures
           rest == SubSeq(stack, 1, Len(stack) - 1)
       IN /\ sink' = Append(sink, SummaryRecord(<<x, y>>))
          /\ returned' = [returned EXCEPT ![Top.dir] = Append(@, <<x, y>>)]
          /\ IF rest = <<>>
               THEN /\ stack' = rest
                    /\ outcome' = <<x, y>>
                    /\ mainpc' = "returned"
               ELSE /\ stack' = [rest EXCEPT ![Len(rest)] = combine(@, x, y)]
                    /\ outcome' = outcome
                    /\ mainpc' = mainpc
    /\ UNCHANGED <<entries, unlistable, pattern, nocase, unit, classified, joins>>

\* line 82, then lines 59-69 in the caller (or line 162 in main)
return ==
    /\ mainpc = "walking"
    /\ Top.todo = {}
    /\ Top.jobs = <<>>
    /\ LET x == Top.successes
           y == Top.failures
           rest == SubSeq(stack, 1, Len(stack) - 1)
       IN /\ returned' = [returned EXCEPT ![Top.dir] = Append(@, <<x, y>>)]
          /\ IF rest = <<>>
               THEN /\ stack' = rest
                    /\ outcome' = <<x, y>>
                    /\ mainpc' = "returned"
               ELSE /\ stack' = [rest EXCEPT ![Len(rest)] = combine(@, x, y)]
                    /\ outcome' = outcome
                    /\ mainpc' = mainpc
    /\ UNCHANGED <<entries, unlistable, pattern, nocase, unit, sink, classified, joins>>

\* main, line 163
summary ==
    /\ mainpc = "returned"
    /\ sink' = Append(sink, SummaryRecord(outcome))
    /\ mainpc' = "done"
    /\ UNCHANGED <<entries, unlistable, pattern, nocase, stack, outcome, unit,
                   classified, joins, returned>>

\* main returns, or the panic of the main thread has unwound: the process
\* exits and takes the threads that still run with it
exit ==
    /\ mainpc \in {"done", "panicked"}
    /\ mainpc' = IF mainpc = "done" THEN "exited" ELSE "aborted"
    /\ UNCHANGED <<entries, unlistable, pattern, nocase, stack, outcome, unit, sink,
                   classified, joins, returned>>

Running == mainpc \notin {"exited", "aborted"}

----------------------------------------------------------------------------
(* search_file, one thread per file *)

\* compile, the file opened before the pattern is compiled
compile_late(u) ==
    /\ Running
    /\ unit[u].st = "spawned"
    /\ unit' = IF ~Openable(u)
                 THEN [unit EXCEPT ![u].st = "returned", ![u].result = "FileNotFound"]
                 ELSE [unit EXCEPT ![u].st = IF Compiles(pattern) THEN "compiled"
                                                                 ELSE "panicked",
                                   ![u].opened = TRUE]
    /\ UNCHANGED <<entries, unlistable, pattern, nocase, mainpc, stack, outcome, sink,
                   classified, joins, returned>>

\* lines 96-103: Regex::new(..).unwrap(), RegexBuilder .. build().unwrap()
compile(u) ==
    /\ Running
    /\ unit[u].st = "spawned"
    /\ unit' = [unit EXCEPT ![u].st = IF Compiles(pattern) THEN "compiled" ELSE "panicked"]
    /\ UNCHANGED <<entries, unlistable, pattern, nocase, mainpc, stack, outcome, sink,
                   classified, joins, returned>>

\* lines 104-109: File::open
open(u) ==
    /\ Running
    /\ unit[u].st = "compiled"
    /\ unit' = IF Openable(u)
                 THEN [unit EXCEPT ![u].st = "reading", ![u].opened = TRUE]
                 ELSE [unit EXCEPT ![u].st = "returned", ![u].result = "FileNotFound"]
    /\ UNCHANGED <<entries, unlistable, pattern, nocase, mainpc, stack, outcome, sink,
                   classified, joins, returned>>

\* read_line, the search given up at the first match
read_line_first(u) ==
    /\ Running
    /\ unit[u].st = "reading"
    /\ unit[u].line < Len(lines(u))
    /\ LET line_str == lines(u)[unit[u].line + 1] IN
         IF ~Decodes(line_str)
           THEN /\ unit' = [unit EXCEPT ![u].st = "returned",
                                        ![u].result = "IncompatibleFormat"]
                /\ sink' = sink
           ELSE /\ unit' = IF is_match(pattern, nocase, line_str)
                             THEN [unit EXCEPT ![u].st = "returned", ![u].result = "Processed"]
                             ELSE [unit EXCEPT ![u].line = @ + 1]
                /\ sink' = IF is_match(pattern, nocase, line_str)
                             THEN Append(sink, MatchRecord(unit[u].path, line_str))
                             ELSE sink
    /\ UNCHANGED <<entries, unlistable, pattern, nocase, mainpc, stack, outcome,
                   classified, joins, returned>>

\* read_line, a line that does not decode skipped
read_line_skip(u) ==
    /\ Running
    /\ unit[u].st = "reading"
    /\ unit[u].line < Len(lines(u))
    /\ LET line_str == lines(u)[unit[u].line + 1] IN
         IF ~Decodes(line_str)
           THEN /\ unit' = [unit EXCEPT ![u].line = @ + 1]
                /\ sink' = sink
           ELSE /\ unit' = [unit EXCEPT ![u].line = @ + 1]
                /\ sink' = IF is_match(pattern, nocase, line_str)
                             THEN Append(sink, MatchRecord(unit[u].path, line_str))
                             ELSE sink
    /\ UNCHANGED <<entries, unlistable, pattern, nocase, mainpc, stack, outcome,
                   classified, joins, returned>>

\* lines 111-122: one turn of the loop over reader.lines()
read_line(u) ==
    /\ Running
    /\ unit[u].st = "reading"
    /\ unit[u].line < Len(lines(u))
    /\ LET line_str == lines(u)[unit[u].line + 1] IN
         IF ~Decodes(line_str)
           THEN /\ unit' = [unit EXCEPT ![u].st = "returned",
                                        ![u].result = "IncompatibleFormat"]
                /\ sink' = sink
           ELSE /\ unit' = [unit EXCEPT ![u].line = @ + 1]
                /\ sink' = IF is_match(pattern, nocase, line_str)
                             THEN Append(sink, MatchRecord(unit[u].path, line_str))
                             ELSE sink
    /\ UNCHANGED <<entries, unlistable, pattern, nocase, mainpc, stack, outcome,
                   classified, joins, returned>>

\* line 124: the lines are exhausted, Ok(return_value)
finish(u) ==
    /\ Running
    /\ unit[u].st = "reading"
    /\ unit[u].line = Len(lines(u))
    /\ unit' = [unit EXCEPT ![u].st = "returned", ![u].result = "Processed"]
    /\ UNCHANGED <<entries, unlistable, pattern, nocase, mainpc, stack, outcome, sink,
                   classified, joins, returned>>

----------------------------------------------------------------------------

Next ==
    \/ main_call
    \/ spawn
    \/ recurse
    \/ join
    \/ return
    \/ summary
    \/ exit
    \/ \E u \in Files(entries) : compile(u)
    \/ \E u \in Files(entries) : open(u)
    \/ \E u \in Files(entries) : read_line(u)
    \/ \E u \in Files(entries) : finish(u)

Spec == Init /\ [][Next]_vars

\* The operating system schedules every thread that can run: while some
\* thread has a step to take, a step is taken.  (A step that is enabled stays
\* enabled until it is taken, so this is all that fair scheduling of the
\* threads adds.)
FairSpec == Spec /\ WF_vars(Next)

----------------------------------------------------------------------------
(* Vocabulary of the properties *)

RECURSIVE Under(_, _)
\* entry n lies in the subtree of directory d
Under(n, d) == n # Root /\ (Parent(n) = d \/ Under(Parent(n), d))

FilesUnder(d) == {n \in Files(entries) : Under(n, d)}

NumFiles == Cardinality(Files(entries))

\* the root search_directory call has returned to main
RootReturned == mainpc \in {"returned", "done", "exited"}

\* the invocation for directory d has returned
HasReturned(d) == returned[d] # <<>>

AllListable == unlistable = {}

\* every line of the file decodes
Decodable(n) == \A i \in 1..Len(lines(n)) : Decodes(lines(n)[i])

----------------------------------------------------------------------------
(* C1 *)

\* C1: when every directory can be listed, the pair the root call returns
\* sums to the number of non-directory entries of the tree, whatever the
\* pattern, the contents and the interleaving; every entry was classified
\* exactly once, every thread joined exactly once for exactly 1 in exactly
\* one counter, and every invocation's pair handed up exactly once.  The
\* same sum holds for the pair of every invocation over its own subtree.
C1_Conservation ==
    /\ \A n \in entries : classified[n] <= 1
    /\ \A u \in Files(entries) :
         /\ Len(joins[u]) <= 1
         /\ joins[u] # <<>> => joins[u][1] \in {<<1, 0>>, <<0, 1>>}
    /\ \A d \in Dirs(entries) :
         /\ Len(returned[d]) <= 1
         /\ HasReturned(d) =>
              /\ returned[d][1][1] + returned[d][1][2] = Cardinality(FilesUnder(d))
              /\ \A n \in entries : Under(n, d) => classified[n] = 1
              /\ \A u \in FilesUnder(d) : Len(joins[u]) = 1
    /\ (AllListable /\ RootReturned) =>
         /\ outcome[1] + outcome[2] = NumFiles
         /\ outcome = returned[Root][1]
         /\ \A d \in Dirs(entries) : HasReturned(d)

\* the root call has returned over a three-level tree with a typed error in it
C1_Witness ==
    /\ mainpc = "returned"
    /\ entries = {1, 3, 5, 6, 7}
    /\ outcome[1] + outcome[2] = 3

----------------------------------------------------------------------------
(* C2 *)

\* C2: with a pattern that compiles and every file openable and decodable,
\* the root call returns (number of files in the whole tree, 0), at any
\* depth and whether or not a line matches.
C2_Recursion ==
    ( /\ RootReturned
      /\ Compiles(pattern)
      /\ \A n \in Files(entries) : Openable(n) /\ Decodable(n) )
    => outcome = <<NumFiles, 0>>

\* a tree of three levels with a file at every level; the files of the two
\* upper levels have no matching line, the one at the bottom has two
C2_Witness ==
    /\ mainpc = "returned"
    /\ entries = {2, 3, 4, 6, 7}
    /\ pattern = <<"h","e","l","l","o">> /\ ~nocase
    /\ outcome = <<3, 0>>
    /\ Len(sink) = 2

----------------------------------------------------------------------------
(* C3 *)

\* C3: with a pattern that compiles, a file with undecodable text
\* contributes exactly one failure to the count of its directory, and its
\* siblings are still searched and counted.
C3_Isolation ==
    \A u \in Files(entries) :
      ( /\ Compiles(pattern)
        /\ ~Decodable(u)
        /\ HasReturned(Parent(u)) )
      => /\ joins[u] = << <<0, 1>> >>
         /\ \A v \in Files(entries) :
              Parent(v) = Parent(u) => Terminated(v) /\ Len(joins[v]) = 1

----------------------------------------------------------------------------
(* C4 *)

\* how many of the search_file threads below d ended the given way
Ended(d, st) == Cardinality({u \in FilesUnder(d) : unit[u].st = st})

----------------------------------------------------------------------------
(* C5 *)

\* C5: a search_file thread that panics does not take the main thread with
\* it (the main thread panics only on an unlistable directory), its siblings
\* are all run to their end and joined once before their directory's
\* invocation returns, and its own join adds exactly one failure.
C5_FailureIsolation ==
    \A u \in Files(entries) :
      unit[u].st = "panicked" =>
        /\ AllListable => mainpc \notin {"panicked", "aborted"}
        /\ joins[u] \in {<<>>, << <<0, 1>> >>}
        /\ HasReturned(Parent(u)) =>
             /\ joins[u] = << <<0, 1>> >>
             /\ \A v \in Files(entries) :
                  Parent(v) = Parent(u) => Terminated(v) /\ Len(joins[v]) = 1

\* both threads of sub/ panicked, sub/ returned (0, 2) and the walk goes on
C5_Witness ==
    /\ mainpc = "walking"
    /\ {3, 4, 5} \subseteq entries
    /\ unit[4].st = "panicked"
    /\ returned[3] = << <<0, 2>> >>
    /\ ~HasReturned(Root)

----------------------------------------------------------------------------
(* C6 *)

\* C6: an invocation joins only the threads it spawned itself, and once it
\* has returned no thread spawned in its subtree is still running (each has
\* been spawned and has terminated); so none runs when the root call returns.
C6_JoinBeforeReturn ==
    /\ \A i \in 1..Len(stack) : \A j \in 1..Len(stack[i].jobs) :
         Parent(stack[i].jobs[j]) = stack[i].dir
    /\ \A d \in Dirs(entries) :
         HasReturned(d) => \A u \in FilesUnder(d) : Terminated(u)
    /\ RootReturned => \A u \in Files(entries) : Terminated(u)

\* sub/ has returned while a thread of the enclosing directory still reads
C6_Witness ==
    /\ {1, 3, 4} \subseteq entries
    /\ HasReturned(3)
    /\ Terminated(4)
    /\ unit[1].st = "reading"

----------------------------------------------------------------------------
(* C7 *)

Summaries == {i \in 1..Len(sink) : sink[i].kind = "summary"}

\* C7: the summary is written at most once, only after the root call has
\* returned, with the pair it returned, and it is the last record of the
\* output in every state: no match record follows it.  Once main has
\* written it, it is there exactly once.
C7_SummaryLast ==
    /\ Cardinality(Summaries) <= 1
    /\ Summaries # {} =>
         /\ Summaries = {Len(sink)}
         /\ mainpc \in {"done", "exited"}
         /\ sink[Len(sink)] = SummaryRecord(outcome)
         /\ \A u \in Files(entries) : Terminated(u)
    /\ mainpc \in {"done", "exited"} => Cardinality(Summaries) = 1

\* the summary follows three match records
C7_Witness ==
    /\ mainpc = "done"
    /\ Len(sink) = 4
    /\ sink[4].kind = "summary"
    /\ sink[1].kind = "match"

----------------------------------------------------------------------------
(* C8 *)

RECURSIVE FullPath(_)
\* the path of an entry, from the directory given to main
FullPath(n) == IF n = Root THEN RootPath ELSE Append(FullPath(Parent(n)), Name(n))

\* the lines of the match records written so far with the given path, in order
Written(path) ==
    LET rs == SelectSeq(sink, LAMBDA r : r.kind = "match" /\ r.path = path)
    IN [i \in 1..Len(rs) |-> rs[i].line]

\* the lines among the first k lines of file n that match the pattern
Matching(n, k) ==
    SelectSeq(SubSeq(lines(n), 1, k), LAMBDA l : is_match(pattern, nocase, l))

\* C8: with a pattern that compiles, the records written for a decodable
\* file, in the order written, are the matching lines among the lines read
\* so far, in file order, each with the file's path; when search_file has
\* returned they are all the matching lines of the file, once each.
C8_PerFileOutput ==
    \A u \in Files(entries) :
      (Compiles(pattern) /\ Decodable(u)) =>
        /\ Written(FullPath(u)) = Matching(u, unit[u].line)
        /\ unit[u].result = "Processed" =>
             Written(FullPath(u)) = Matching(u, Len(lines(u)))

\* e.txt was read to its end: its first and third line were written, the
\* second was not, and a record of a.txt lies between them
C8_Witness ==
    /\ {1, 7} \subseteq entries
    /\ unit[7].result = "Processed"
    /\ Len(sink) = 3
    /\ sink[1] = MatchRecord(<<"root", "sub", "deep", "e.txt">>, <<"a","b","c"," ","h","e","l","l","o">>)
    /\ sink[2] = MatchRecord(<<"root", "a.txt">>, <<"h","e","l","l","o">>)
    /\ sink[3] = MatchRecord(<<"root", "sub", "deep", "e.txt">>, <<"h","e","l","l","o">>)

----------------------------------------------------------------------------
(* C9 *)

\* the pair of a run as a function of the tree, the pattern and the flag
Counts(S, p, ci) ==
    IF Compiles(p) THEN <<Cardinality(Files(S)), 0>> ELSE <<0, Cardinality(Files(S))>>

\* C9: the pair the root call returns is a function of the tree, the pattern
\* and the case flag alone: every enumeration order and every interleaving
\* of the threads ends with the same pair.
C9_Determinism ==
    RootReturned => outcome = Counts(entries, pattern, nocase)

\* a run in which b.txt's record was written before a.txt's
C9_Witness ==
    /\ mainpc = "returned"
    /\ entries = {1, 2, 3, 4}
    /\ outcome = <<3, 0>>
    /\ Len(sink) = 2
    /\ sink[1].path = <<"root", "b.txt">>
    /\ sink[2].path = <<"root", "a.txt">>

----------------------------------------------------------------------------
(* C10 *)

\* root/ with a.txt, b.txt and sub/c.txt, searched for "hello"
Scenario ==
    /\ entries = {1, 2, 3, 4}
    /\ AllListable
    /\ pattern = <<"h","e","l","l","o">>

Finished == mainpc \in {"done", "exited"}

\* C10 as stated: the records carry the bare file names a.txt and b.txt.
C10_AsStated ==
    LET a == MatchRecord(<<"a.txt">>, <<"h","e","l","l","o">>)
        b == MatchRecord(<<"b.txt">>, <<"H","E","L","L","O">>)
        t == SummaryRecord(<<3, 0>>)
    IN (Scenario /\ Finished) =>
         IF nocase THEN sink \in {<<a, b, t>>, <<b, a, t>>} ELSE sink = <<a, t>>

\* C10: in the scenario the case-sensitive search writes exactly the record
\* root/a.txt:\thello and the summary with successes 3 and failures 0; the
\* case-insensitive one writes root/a.txt:\thello and root/b.txt:\tHELLO in
\* either order and the same summary.  The path of a record is the file's
\* path below the directory given, not the bare file name.
C10_Scenario ==
    LET a == MatchRecord(<<"root", "a.txt">>, <<"h","e","l","l","o">>)
        b == MatchRecord(<<"root", "b.txt">>, <<"H","E","L","L","O">>)
        t == SummaryRecord(<<3, 0>>)
    IN (Scenario /\ Finished) =>
         IF nocase THEN sink \in {<<a, b, t>>, <<b, a, t>>} ELSE sink = <<a, t>>

\* the case-sensitive search of the scenario has written its summary
C10_Witness ==
    /\ Scenario
    /\ ~nocase
    /\ mainpc = "done"
    /\ Len(sink) = 2
    /\ sink[2] = SummaryRecord(<<3, 0>>)

----------------------------------------------------------------------------
(* C11 *)

\* the letters of the texts, lower case with upper case
LetterPairs ==
    {<<"a","A">>, <<"b","B">>, <<"c","C">>, <<"d","D">>, <<"e","E">>, <<"h","H">>,
     <<"l","L">>, <<"m","M">>, <<"n","N">>, <<"o","O">>, <<"r","R">>, <<"t","T">>,
     <<"w","W">>, <<"x","X">>}

SameLetter(c, d) == c = d \/ <<c, d>> \in LetterPairs \/ <<d, c>> \in LetterPairs

\* l contains p, exactly or up to the case of its letters
Occurs(l, p, anycase) ==
    \E i \in 0..(Len(l) - Len(p)) : \A j \in 1..Len(p) :
      IF anycase THEN SameLetter(l[i + j], p[j]) ELSE l[i + j] = p[j]

\* a match record for this line of file u is in the output
Printed(u, l) == \E k \in 1..Len(sink) : sink[k] = MatchRecord(FullPath(u), l)

\* C11: for a literal pattern, a line that search_file has read is written
\* iff it contains the pattern, up to letter case when the flag is set and
\* exactly when it is clear.  So for "ABC" the line "abc hello" of e.txt is
\* written with the flag set and not written with it clear.
C11_CaseFlag ==
    /\ \A u \in Files(entries) : \A i \in 1..unit[u].line :
         Compiles(pattern) =>
           (Printed(u, lines(u)[i]) <=> Occurs(lines(u)[i], pattern, nocase))
    /\ (7 \in entries /\ unit[7].line >= 1 /\ pattern = <<"A","B","C">>) =>
         (Printed(7, <<"a","b","c"," ","h","e","l","l","o">>) <=> nocase)

\* "ABC" with the flag set: the line "abc hello" and the line "xABC" of
\* e.txt were both written
C11_Witness ==
    /\ 7 \in entries
    /\ pattern = <<"A","B","C">>
    /\ nocase
    /\ unit[7].result = "Processed"
    /\ Printed(7, <<"a","b","c"," ","h","e","l","l","o">>)
    /\ Printed(7, <<"x","A","B","C">>)

----------------------------------------------------------------------------
(* C12 *)

\* C12: when every directory can be listed, under fair scheduling every
\* thread spawned ends, every invocation returns and the root call returns
\* its pair to main, which runs to the end of the process; the main thread
\* never aborts on the way.
C12_Termination ==
    /\ AllListable ~> ( /\ mainpc = "exited"
                        /\ \A u \in Files(entries) : Terminated(u)
                        /\ \A d \in Dirs(entries) : HasReturned(d) )
    /\ [](AllListable => mainpc \notin {"panicked", "aborted"})

\* the run over a tree of three levels has ended, its threads having
\* panicked on the pattern
C12_Witness ==
    /\ mainpc = "exited"
    /\ entries = {1, 3, 4, 6, 7}
    /\ ~Compiles(pattern)
    /\ outcome = <<0, 3>>

----------------------------------------------------------------------------
(* C13 *)

\* the walk of directory d has started: its entry was taken and read_dir succeeded
Started(d) == classified[d] = 1 /\ d \notin unlistable

SubDirs(d) == {n \in Dirs(entries) \ {Root} : Parent(n) = d}

RECURSIVE SumReturned(_, _)
\* the sum of component k of the pairs returned by the directories of S
SumReturned(S, k) ==
    IF S = {} THEN 0
    ELSE LET d == CHOOSE x \in S : TRUE
         IN returned[d][1][k] + SumReturned(S \ {d}, k)

\* what the joins of the files of directory d have added to component k
Joined(d, k) ==
    Cardinality({u \in Files(entries) : Parent(u) = d /\ joins[u] # <<>> /\ joins[u][1][k] = 1})

\* C13: the invocations in progress are a chain of callers, each the parent
\* directory of the next, so only the innermost runs and no two sibling
\* directories are walked at once.  When the walk of a directory is under
\* way, every sibling whose walk has started has returned, every thread of
\* that sibling's subtree has ended, and the sibling's pair is in the running
\* total of the parent, which is always the sum of the pairs returned to it
\* and of its own joins.
C13_Sequential ==
    /\ stack # <<>> => stack[1].dir = Root
    /\ \A i \in 1..(Len(stack) - 1) : Parent(stack[i + 1].dir) = stack[i].dir
    /\ \A i \in 1..Len(stack) :
         LET back == {d \in SubDirs(stack[i].dir) : HasReturned(d)} IN
           /\ stack[i].successes = SumReturned(back, 1) + Joined(stack[i].dir, 1)
           /\ stack[i].failures = SumReturned(back, 2) + Joined(stack[i].dir, 2)
    /\ \A d1 \in Dirs(entries) \ {Root} : \A d2 \in SubDirs(Parent(d1)) \ {d1} :
         (Started(d1) /\ Started(d2) /\ ~HasReturned(d2)) =>
           /\ HasReturned(d1)
           /\ \A u \in FilesUnder(d1) : Terminated(u)

\* alt/ is being walked after sub/ returned (1, 0), which root/ has added
C13_Witness ==
    /\ {3, 4, 8, 9} \subseteq entries
    /\ mainpc = "walking"
    /\ Len(stack) = 2
    /\ stack[2].dir = 8
    /\ returned[3] = << <<1, 0>> >>
    /\ stack[1].successes = 1

----------------------------------------------------------------------------
(* C14 *)

\* the thread of file u has been spawned and has not ended
Live(u) == unit[u].st \in {"spawned", "compiled", "reading"}

\* C14: nothing caps the threads.  Whatever the number of live threads, the
\* walker can spawn the thread of any file still to be taken from its
\* listing and can enter any directory still to be taken, and every live
\* thread can take its next step whatever the others and the walker do.
C14_NoCap ==
    /\ mainpc = "walking" =>
         /\ (\E n \in Top.todo : ~IsDir(n)) => ENABLED spawn
         /\ (\E n \in Top.todo : IsDir(n)) => ENABLED recurse
    /\ \A u \in Files(entries) :
         Running =>
           /\ unit[u].st = "spawned" => ENABLED compile(u)
           /\ unit[u].st = "compiled" => ENABLED open(u)
           /\ unit[u].st = "reading" => ENABLED (read_line(u) \/ finish(u))

\* both threads of root/ are live at once, and while they are, sub/, taken
\* from the listing after them, is being walked and has a live thread too
C14_Witness ==
    /\ entries = {1, 2, 3, 4}
    /\ Len(stack) = 2
    /\ stack[1].todo = {}
    /\ stack[1].jobs \in {<<1, 2>>, <<2, 1>>}
    /\ Live(1) /\ Live(2)
    /\ unit[1].st = "reading" /\ unit[2].st = "reading"
    /\ stack[2].dir = 3
    /\ unit[4].st = "reading"

----------------------------------------------------------------------------
(* C15 *)

\* C15: spawning never blocks the walker; a thread is joined only when
\* every entry of its directory has been classified and every subdirectory's
\* call has returned; the handles wait in jobs, each once, from the spawn to
\* the join, and each is joined once, the head of jobs first.
C15_TwoPhase ==
    /\ (mainpc = "walking" /\ \E n \in Top.todo : ~IsDir(n)) => ENABLED spawn
    /\ \A u \in Files(entries) :
         joins[u] # <<>> =>
           /\ Len(joins[u]) = 1
           /\ \A n \in Listing(Parent(u)) :
                classified[n] = 1 /\ (IsDir(n) => HasReturned(n))
    /\ \A i \in 1..Len(stack) :
         LET f == stack[i] IN
           /\ \A j, k \in 1..Len(f.jobs) : f.jobs[j] = f.jobs[k] => j = k
           /\ \A u \in Files(entries) :
                Parent(u) = f.dir =>
                  ((\E j \in 1..Len(f.jobs) : f.jobs[j] = u)
                     <=> (unit[u].st # "none" /\ joins[u] = <<>>))
           /\ f.todo # {} => \A u \in Files(entries) : Parent(u) = f.dir => joins[u] = <<>>

\* root/ has listed everything and sub/ has returned; a.txt's thread is
\* joined, b.txt's handle is the one left in jobs
C15_Witness ==
    /\ entries = {1, 2, 3, 4}
    /\ mainpc = "walking"
    /\ HasReturned(3)
    /\ joins[1] # <<>>
    /\ Top.jobs = <<2>>

----------------------------------------------------------------------------
(* C16 *)

\* the first line of file n that does not decode
FirstBad(n) ==
    CHOOSE k \in 1..Len(lines(n)) :
      ~Decodes(lines(n)[k]) /\ \A j \in 1..(k - 1) : Decodes(lines(n)[j])

\* C16: with a pattern that compiles, search_file on an openable file whose
\* first undecodable line is line k never gets past line k - 1 and never
\* returns Processed; it returns IncompatibleFormat, and from then on (the
\* records are not retracted, and none is added) the records written for the
\* file are the matching lines among lines 1..k-1, in order.
C16_MidFile ==
    \A u \in Files(entries) :
      (Compiles(pattern) /\ Openable(u) /\ ~Decodable(u)) =>
        /\ unit[u].line < FirstBad(u)
        /\ Written(FullPath(u)) = Matching(u, unit[u].line)
        /\ unit[u].result \in {"none", "IncompatibleFormat"}
        /\ unit[u].st = "returned" =>
             /\ unit[u].result = "IncompatibleFormat"
             /\ unit[u].line = FirstBad(u) - 1
             /\ Written(FullPath(u)) = Matching(u, FirstBad(u) - 1)

\* d.bin = "hello", undecodable, "hello": at the end of the run its first
\* line is in the output once and its third line is not
C16_Witness ==
    /\ 5 \in entries
    /\ pattern = <<"h","e","l","l","o">>
    /\ mainpc = "done"
    /\ unit[5].result = "IncompatibleFormat"
    /\ FirstBad(5) = 2
    /\ Written(FullPath(5)) = << <<"h","e","l","l","o">> >>

----------------------------------------------------------------------------
(* C17 *)

\* C17: with a pattern that does not compile, every search_file thread
\* panics before it opens its file (also a file that cannot be opened) and
\* before it returns anything, no match record is written, the main thread
\* does not abort unless a directory is unlistable, every join adds one
\* failure, and the root call returns (0, number of non-directory entries),
\* which is (0, 0) for a tree without files.
C17_InvalidPattern ==
    ~Compiles(pattern) =>
      /\ \A u \in Files(entries) :
           /\ unit[u].st \in {"none", "spawned", "panicked"}
           /\ ~unit[u].opened
           /\ unit[u].result = "none"
           /\ joins[u] \in {<<>>, << <<0, 1>> >>}
      /\ \A k \in 1..Len(sink) : sink[k].kind = "summary"
      /\ AllListable => mainpc \notin {"panicked", "aborted"}
      /\ RootReturned => outcome = <<0, NumFiles>>

\* the run with an unclosed group over a.txt and the unopenable alt/gone has
\* written its summary, two failures, and nothing else
C17_Witness ==
    /\ entries = {1, 8, 9}
    /\ pattern = <<"(">>
    /\ mainpc = "done"
    /\ unit[9].st = "panicked"
    /\ sink = <<SummaryRecord(<<0, 2>>)>>

----------------------------------------------------------------------------
(* C18 *)

\* directory d is the unlistable directory or encloses it
Encloses(d) == \E b \in unlistable : d = b \/ Under(b, d)

\* C18: when a directory of the tree cannot be listed, its invocation and
\* every enclosing one never return, the root call hands no pair to main and
\* no summary is ever written; the threads spawned by the enclosing
\* invocations are never joined; and once the directory has been reached the
\* main thread has panicked, whatever the depth.
C18_UnlistableFatal ==
    ~AllListable =>
      /\ \A d \in Dirs(entries) : Encloses(d) => ~HasReturned(d)
      /\ ~RootReturned
      /\ outcome = <<0, 0>>
      /\ \A k \in 1..Len(sink) : sink[k].kind = "match"
      /\ \A u \in Files(entries) : Encloses(Parent(u)) => joins[u] = <<>>
      /\ \A b \in unlistable :
           (IF b = Root THEN mainpc # "start" ELSE classified[b] = 1)
             <=> mainpc \in {"panicked", "aborted"}

\* root/sub/deep cannot be listed: the process has aborted with the threads
\* of a.txt and sub/c.txt ended, their records written, and neither joined
C18_Witness ==
    /\ {1, 3, 4, 6} \subseteq entries
    /\ unlistable = {6}
    /\ mainpc = "aborted"
    /\ Len(stack) = 2
    /\ unit[1].result = "Processed" /\ joins[1] = <<>>
    /\ unit[4].result = "Processed" /\ joins[4] = <<>>
    /\ Len(sink) = 1

====
